---- MODULE Spec2Model ----
(***************************************************************************)
(* Frame-analysis core of the parking management system:                    *)
(*   - check_parking_space      (src/detection/parking_detection.py)        *)
(*   - detect_vehicles_traditional, detect_vehicles_ml                      *)
(*                              (src/detection/vehicle_counting.py)         *)
(*   - DetectionTab handlers    (src/ui/detection_tab.py)                   *)
(*   - ParkingManagementSystem  (src/parking_management.py)                 *)
(* Each function is translated statement by statement.  SpecPark applies    *)
(* the occupancy classifier to bounded masks and region lists; SpecTrack    *)
(* chains calls of the two trackers, each call receiving the pool and the   *)
(* counter returned by the previous one; SpecClamp calls either tracker once *)
(* on frames of several heights; SpecOrch runs the user-interface handlers  *)
(* of the detection tab against the background monitoring thread.           *)
(* SpecMotion and SpecDetector chain calls of one tracker from the empty    *)
(* pool; SpecCentroid applies the two centroid computations to one box;     *)
(* SpecParkRepeat calls the classifier twice; SpecLoop runs the detection   *)
(* tab alone, the frame cycle being fair; SpecOrchPool adds the controller  *)
(* methods src/ does not define; SpecSetup runs the setup-tab handlers.     *)
(***************************************************************************)
EXTENDS Integers, Sequences, FiniteSets, TLC

VARIABLES
    \* ---- occupancy classifier: arguments and results of the last call
    processed_img,      \* the binary mask: the set of its non-zero pixels <<row, col>>
    img_shape,          \* processed_img.shape as <<rows, cols>>
    parking_positions,  \* the region list: a sequence of <<x, y, w, h>>
    threshold,          \* the absolute pixel-count threshold
    space_counter,      \* the returned free count
    annotations,        \* what the call drew, one entry per region, in order
    park_done,          \* TRUE once check_parking_space has returned
    park_prev,          \* the threshold and the result of the call before the last
    \* ---- vehicle trackers: the caller's chained state and the last call
    matches,            \* the centroid pool carried from call to call
    vehicle_counter,    \* the counter carried from call to call
    self_line_height,   \* self.line_height: the line_height argument the caller passes
    self_offset,        \* self.offset: the offset argument the caller passes
    call,               \* the last tracker call: its arguments and what it did
    \* ---- detection tab (DetectionTab) and controller (ParkingManagementSystem)
    tab_running,        \* DetectionTab.running
    ctl_running,        \* ParkingManagementSystem.running
    video_source_var,   \* DetectionTab.video_source_var
    detection_mode_var, \* DetectionTab.detection_mode_var
    use_ml_var,         \* DetectionTab.use_ml_var
    detection_mode,     \* ParkingManagementSystem.detection_mode
    video_capture,      \* controller.video_capture: "none", or the state of the
                        \* capture object it holds: "unopened", "open", "released"
    open_captures,      \* number of captures opened and not released
    captures_made,      \* number of cv2.VideoCapture objects constructed
    current_reference_image,
    posList,            \* the region list
    total_spaces,
    free_spaces,
    occupied_spaces,
    stats_data,         \* the rows recorded by record_current_stats
    ui_pc,              \* where the user-interface thread is
    mon_pc,             \* where the monitoring thread is
    mon_row,            \* the fields of the row the monitoring thread has read so far
    frame,              \* the last cycle of process_video_frame
    switched,           \* the mode was changed mid-stream and no counting frame
                        \* has been processed since
    pending,            \* process_video_frame callbacks scheduled with after() and
                        \* not yet run
    \* ---- setup tab: the mouse handlers of the controller and the position files
    drawing,            \* self.drawing: "True" or "False", "unset" until
                        \* on_mouse_down assigns it
    start_pt,           \* <<self.start_x, self.start_y>>, "unset" likewise
    pos_file,           \* reference image -> the list pickled in its position file
                        \* (<<>> when there is no file)
    setup_op            \* the last setup operation: its number, inputs and result

parkVars  == <<processed_img, img_shape, parking_positions, threshold,
               space_counter, annotations, park_done, park_prev>>
trackVars == <<matches, vehicle_counter, self_line_height, self_offset, call>>
orchVars  == <<tab_running, ctl_running, video_source_var, detection_mode_var,
               use_ml_var, detection_mode, video_capture, open_captures,
               captures_made, current_reference_image, posList, total_spaces,
               free_spaces, occupied_spaces, stats_data, ui_pc, mon_pc, mon_row,
               frame, switched, pending, drawing, start_pt, pos_file, setup_op>>
setupVars == <<drawing, start_pt, pos_file, setup_op>>
vars      == <<parkVars, trackVars, orchVars>>

----------------------------------------------------------------------------
(* Generic helpers *)

Range(s) == {s[i] : i \in DOMAIN s}

RECURSIVE SeqsUpTo(_, _)
\* all sequences over S of length at most n
SeqsUpTo(S, n) ==
    IF n = 0 THEN {<<>>}
    ELSE LET shorter == SeqsUpTo(S, n - 1)
         IN  shorter \cup {Append(s, e) : s \in {t \in shorter : Len(t) = n - 1}, e \in S}

RemoveAt(s, i) == [j \in 1..(Len(s) - 1) |-> IF j < i THEN s[j] ELSE s[j + 1]]

----------------------------------------------------------------------------
(* Bounds of the occupancy-classifier model *)

MaxRegions == 2         \* longest region list
MaxThreshold == 2       \* thresholds 0..MaxThreshold

\* The mask shapes tried: <<rows, cols>>.
ImgShapes == {<<2, 3>>}

\* The regions tried on a 2-row, 3-column mask: scored by the code, touching
\* the right or bottom edge, and (partly) outside.
Regions ==
    { <<0, 0, 1, 1>>, <<1, 0, 1, 1>>, <<0, 0, 2, 1>>,      \* strictly inside
      <<1, 0, 2, 1>>, <<0, 0, 1, 2>>, <<2, 1, 1, 1>>,      \* edge on the frame edge
      <<-1, 0, 1, 1>>, <<0, -1, 1, 1>>,                    \* negative origin
      <<2, 0, 2, 1>>, <<0, 1, 1, 2>> }                     \* past the right / bottom

Pixels(shape) == (0..(shape[1] - 1)) \X (0..(shape[2] - 1))

----------------------------------------------------------------------------
(* check_parking_space *)

\* numpy basic slicing a[lo:hi] on an axis of length n: the set of indices taken
SliceIdx(lo, hi, n) ==
    LET norm(k) == IF k < 0 THEN (IF k + n < 0 THEN 0 ELSE k + n)
                   ELSE (IF k > n THEN n ELSE k)
    IN  {k \in 0..(n - 1) : norm(lo) <= k /\ k < norm(hi)}

\* cv2.countNonZero(processed_img[y:y + h, x:x + w])
CountNonZero(nz, shape, x, y, w, h) ==
    Cardinality({p \in nz : /\ p[1] \in SliceIdx(y, y + h, shape[1])
                            /\ p[2] \in SliceIdx(x, x + w, shape[2])})

\* the guard of lines 27-28 with the two lower-bound tests lost
WithinBoundsLoose(x, y, w, h, shape) ==
    y + h < shape[1] /\ x + w < shape[2]

\* lines 27-28
WithinBounds(x, y, w, h, shape) ==
    y >= 0 /\ y + h < shape[1] /\ x >= 0 /\ x + w < shape[2]

\* the test of line 37 written with <= instead of <
IsFreeLoose(count, thr) == count <= thr

\* line 37
IsFree(count, thr) == count < thr

Skipped == [scored |-> FALSE, count |-> 0, color |-> "none"]

RECURSIVE ParkLoop(_, _, _, _, _, _)
\* the for loop of lines 25-44 from index i on, with the running space_counter
\* and the drawings made so far
ParkLoop(nz, shape, positions, thr, i, acc) ==
    IF i > Len(positions) THEN acc
    ELSE LET x == positions[i][1]
             y == positions[i][2]
             w == positions[i][3]
             h == positions[i][4]
             count == CountNonZero(nz, shape, x, y, w, h)
         IN  IF WithinBounds(x, y, w, h, shape)
             THEN IF IsFree(count, thr)
                  THEN ParkLoop(nz, shape, positions, thr, i + 1,
                         [space_counter |-> acc.space_counter + 1,
                          annotations |-> Append(acc.annotations,
                             [scored |-> TRUE, count |-> count, color |-> "green"])])
                  ELSE ParkLoop(nz, shape, positions, thr, i + 1,
                         [space_counter |-> acc.space_counter,
                          annotations |-> Append(acc.annotations,
                             [scored |-> TRUE, count |-> count, color |-> "red"])])
             ELSE ParkLoop(nz, shape, positions, thr, i + 1,
                         [space_counter |-> acc.space_counter,
                          annotations |-> Append(acc.annotations, Skipped)])

\* the call with the free count carried over from the call before
check_parking_space_accumulating(nz, shape, positions, thr) ==
    ParkLoop(nz, shape, positions, thr, 1,
             [space_counter |-> space_counter, annotations |-> <<>>])

\* lines 22-46; line 24: space_counter = 0
check_parking_space(nz, shape, positions, thr) ==
    ParkLoop(nz, shape, positions, thr, 1,
             [space_counter |-> 0, annotations |-> <<>>])

----------------------------------------------------------------------------
(* Bounds and inputs of the tracker model *)

MaxObjects == 2         \* contours / detections per frame
MaxPool == 3            \* carried centroids plus objects in the frame, per call
MaxCounter == 3         \* calls are made while the counter is below this

DEFAULT_LINE_HEIGHT == 400
DEFAULT_OFFSET == 10
MIN_CONTOUR_SIZE == 40
CLAMP_MARGIN == 50      \* line_y = frame height - 50 when clamped
TOLERANCE == 50         \* the pruning distance of detect_vehicles_ml

\* frame.shape as <<rows, cols>>
FrameShapes == {<<480, 640>>}

\* line_height and offset arguments tried; 1000 is clamped to 430 on 480 rows
LineHeights == {DEFAULT_LINE_HEIGHT, 1000}
Offsets == {0, DEFAULT_OFFSET}

\* Bounding rectangles <<x, y, w, h>> of the contours cv2.findContours may
\* return (the image pipeline of lines 12-22 is external):
\*   centroid (100, 390): lower edge of the band around 400
\*   centroid (100, 410): upper edge of the band around 400
\*   centroid (160, 400): on the line 400
\*   centroid (130, 430): on the clamped line 430
\*   a contour that is wide enough but not high enough
Rects ==
    { <<80, 370, 40, 40>>, <<80, 390, 40, 40>>, <<140, 380, 40, 40>>,
      <<110, 410, 40, 40>>, <<140, 390, 40, 20>> }

\* Boxes <<x1, y1, x2, y2>> the detector may report (score and label are only
\* printed, lines 89-92):
\*   centroid (100, 390): 50 px from (130, 430), more than 50 from (160, 400)
\*   centroid (160, 400): on the line 400
\*   centroid (160, 403): the same object three pixels lower (odd y1 + y2)
\*   centroid (130, 430): on the clamped line 430, less than 50 px from (160, 400)
Boxes ==
    { <<80, 370, 120, 410>>, <<140, 380, 180, 420>>,
      <<140, 383, 180, 424>>, <<110, 410, 150, 450>> }

\* where a detect_vehicles_ml call raises: nowhere; in the detector (line 64;
\* raising while a detection is annotated, lines 74-92, leaves the same
\* state); or after the counting loop (lines 103-107)
Raises == {"none", "detect", "display"}

----------------------------------------------------------------------------
(* Shared by both trackers *)

\* the centroid rounded up
get_centroid_ceil(x, y, w, h) == <<x + ((w + 1) \div 2), y + ((h + 1) \div 2)>>

\* line 7
get_centroid(x, y, w, h) == <<x + (w \div 2), y + (h \div 2)>>

\* the clamp written with > instead of >=
ClampLineStrict(line_height, shape) ==
    IF line_height > shape[1] THEN shape[1] - CLAMP_MARGIN ELSE line_height

\* lines 25-27 and 67-69
ClampLine(line_height, shape) ==
    IF line_height >= shape[1] THEN shape[1] - CLAMP_MARGIN ELSE line_height

\* the band test written with <= instead of <
InBandClosed(y, line_y, offset) ==
    (line_y - offset) <= y /\ y <= (line_y + offset)

\* lines 49 and 97: (line_y - offset) < y < (line_y + offset)
InBand(y, line_y, offset) ==
    (line_y - offset) < y /\ y < (line_y + offset)

----------------------------------------------------------------------------
(* detect_vehicles_traditional *)

\* line 34
ContourValid(r, min_w, min_h) == r[3] >= min_w /\ r[4] >= min_h

\* the contour loop started from an empty list instead of matches.copy()
ContourLoopFresh(contours, min_w, min_h, i, new_matches) ==
    LET valid == SelectSeq(contours, LAMBDA r : r[3] >= min_w /\ r[4] >= min_h)
    IN  [k \in 1..Len(valid) |->
            get_centroid(valid[k][1], valid[k][2], valid[k][3], valid[k][4])]

RECURSIVE ContourLoop(_, _, _, _, _)
\* the for loop of lines 32-43 from contour i on; new_matches is the copy of
\* the carried pool being extended
ContourLoop(contours, min_w, min_h, i, new_matches) ==
    IF i > Len(contours) THEN new_matches
    ELSE LET r == contours[i]
         IN  IF ~ContourValid(r, min_w, min_h)
             THEN ContourLoop(contours, min_w, min_h, i + 1, new_matches)
             ELSE ContourLoop(contours, min_w, min_h, i + 1,
                     Append(new_matches, get_centroid(r[1], r[2], r[3], r[4])))

\* the crossing loop counting a centroid twice
CrossLoopDouble(new_matches, line_y, offset, counter) ==
    LET hit(m) == InBand(m[2], line_y, offset)
        n == Cardinality({i \in DOMAIN new_matches : hit(new_matches[i])})
    IN  [remaining_matches |-> SelectSeq(new_matches, LAMBDA m : ~hit(m)),
         new_counter |-> counter + 2 * n,
         counted |-> SelectSeq(new_matches, hit)]

\* the crossing loop keeping the centroids it counts in the pool
CrossLoopKeepCounted(new_matches, line_y, offset, counter) ==
    LET hit(m) == InBand(m[2], line_y, offset)
    IN  [remaining_matches |-> new_matches,
         new_counter |-> counter + Len(SelectSeq(new_matches, hit)),
         counted |-> SelectSeq(new_matches, hit)]

RECURSIVE CrossFrom(_, _, _, _, _)
\* the for loop of lines 48-52 from element i on; acc holds remaining_matches,
\* new_counter and the centroids that took the counting branch
CrossFrom(new_matches, line_y, offset, i, acc) ==
    IF i > Len(new_matches) THEN acc
    ELSE LET m == new_matches[i]
         IN  IF InBand(m[2], line_y, offset)
             THEN CrossFrom(new_matches, line_y, offset, i + 1,
                     [acc EXCEPT !.new_counter = @ + 1,
                                 !.counted = Append(@, m)])
             ELSE CrossFrom(new_matches, line_y, offset, i + 1,
                     [acc EXCEPT !.remaining_matches = Append(@, m)])

\* lines 46-52
CrossLoop(new_matches, line_y, offset, counter) ==
    CrossFrom(new_matches, line_y, offset, 1,
              [remaining_matches |-> <<>>, new_counter |-> counter, counted |-> <<>>])

\* line 31 written "new_matches = matches": the contour loop appends to the
\* caller's list
detect_vehicles_traditional_nocopy(contours, shape, min_w, min_h, line_height, offset, in_matches, in_counter) ==
    LET line_y == ClampLine(line_height, shape)
        new_matches == ContourLoop(contours, min_w, min_h, 1, in_matches)
        r == CrossLoop(new_matches, line_y, offset, in_counter)
    IN  [kind |-> "traditional", raised |-> "none", objects |-> contours,
         frame_height |-> shape[1],
         line_height |-> line_height, offset |-> offset, line_y |-> line_y,
         in_matches |-> in_matches, in_counter |-> in_counter,
         current |-> SubSeq(new_matches, Len(in_matches) + 1, Len(new_matches)),
         pool |-> new_matches,
         counted |-> r.counted,
         carried_after |-> new_matches,
         ret_matches |-> r.remaining_matches,
         ret_counter |-> r.new_counter]

\* lines 24-58; contours stands for the result of lines 12-22.  The returned
\* pool and counter are remaining_matches and new_counter; the caller's list
\* is copied (line 31), never written.
detect_vehicles_traditional(contours, shape, min_w, min_h, line_height, offset, in_matches, in_counter) ==
    LET line_y == ClampLine(line_height, shape)
        new_matches == ContourLoop(contours, min_w, min_h, 1, in_matches)
        r == CrossLoop(new_matches, line_y, offset, in_counter)
    IN  [kind |-> "traditional", raised |-> "none", objects |-> contours,
         frame_height |-> shape[1],
         line_height |-> line_height, offset |-> offset, line_y |-> line_y,
         in_matches |-> in_matches, in_counter |-> in_counter,
         current |-> SubSeq(new_matches, Len(in_matches) + 1, Len(new_matches)),
         pool |-> new_matches,
         counted |-> r.counted,
         carried_after |-> in_matches,
         ret_matches |-> r.remaining_matches,
         ret_counter |-> r.new_counter]

----------------------------------------------------------------------------
(* detect_vehicles_ml *)

RECURSIVE CentroidLoop(_, _, _)
\* the for loop of lines 74-92 from detection i on: current_centroids
CentroidLoop(detections, i, current) ==
    IF i > Len(detections) THEN current
    ELSE LET d == detections[i]
         IN  CentroidLoop(detections, i + 1,
                Append(current, <<(d[1] + d[3]) \div 2, (d[2] + d[4]) \div 2>>))

RECURSIVE CountFrom(_, _, _, _, _)
\* the for loop of lines 96-100 from element i on; acc.matches is the caller's
\* list, appended to in place
CountFrom(current, line_y, offset, i, acc) ==
    IF i > Len(current) THEN acc
    ELSE LET c == current[i]
         IN  IF /\ InBand(c[2], line_y, offset)
                /\ c \notin Range(acc.matches)
             THEN CountFrom(current, line_y, offset, i + 1,
                     [matches |-> Append(acc.matches, c),
                      new_counter |-> acc.new_counter + 1,
                      counted |-> Append(acc.counted, c)])
             ELSE CountFrom(current, line_y, offset, i + 1, acc)

\* the counting loop without the "not in matches" test of line 98
CountLoopNoDedup(current, line_y, offset, in_matches, counter) ==
    LET hits == SelectSeq(current, LAMBDA c : InBand(c[2], line_y, offset))
    IN  [matches |-> in_matches \o hits,
         new_counter |-> counter + Len(hits),
         counted |-> hits]

\* the counting loop testing membership in the pool as it was on entry only
CountLoopCarriedOnly(current, line_y, offset, in_matches, counter) ==
    LET hits == SelectSeq(current, LAMBDA c : /\ InBand(c[2], line_y, offset)
                                              /\ c \notin Range(in_matches))
    IN  [matches |-> in_matches \o hits,
         new_counter |-> counter + Len(hits),
         counted |-> hits]

\* the counting loop appending every new current centroid to the pool, in the
\* band or not
CountLoopPoolAll(current, line_y, offset, in_matches, counter) ==
    LET fresh == SelectSeq(current, LAMBDA c : c \notin Range(in_matches))
        first(i) == \A j \in 1..(i - 1) : fresh[j] # fresh[i]
        once == [k \in 1..Cardinality({i \in DOMAIN fresh : first(i)}) |->
                    fresh[CHOOSE i \in DOMAIN fresh :
                            /\ first(i)
                            /\ Cardinality({j \in 1..i : first(j)}) = k]]
        hits == SelectSeq(once, LAMBDA c : InBand(c[2], line_y, offset))
    IN  [matches |-> in_matches \o once,
         new_counter |-> counter + Len(hits),
         counted |-> hits]

\* lines 95-100
CountLoop(current, line_y, offset, in_matches, counter) ==
    CountFrom(current, line_y, offset, 1,
              [matches |-> in_matches, new_counter |-> counter, counted |-> <<>>])

\* squared Euclidean distance; np.linalg.norm(a - b) < 50 iff Dist2 < 50 * 50
\* for integer points
Dist2(a, b) == (a[1] - b[1]) * (a[1] - b[1]) + (a[2] - b[2]) * (a[2] - b[2])

\* the pruning written with all() instead of any()
PruneAll(pool, current) ==
    SelectSeq(pool, LAMBDA m :
        \A i \in DOMAIN current : Dist2(m, current[i]) < TOLERANCE * TOLERANCE)

\* the pruning skipped when the frame has no detection
PruneUnlessEmpty(pool, current) ==
    IF current = <<>> THEN pool
    ELSE SelectSeq(pool, LAMBDA m :
            \E i \in DOMAIN current : Dist2(m, current[i]) < TOLERANCE * TOLERANCE)

\* lines 103-104
Prune(pool, current) ==
    SelectSeq(pool, LAMBDA m :
        \E i \in DOMAIN current : Dist2(m, current[i]) < TOLERANCE * TOLERANCE)

\* lines 62-113.  raised says where the call raises.  The except branch
\* (lines 111-113) returns the caller's list object and the input counter; the
\* list has by then received the appends of line 100 if the counting loop ran.
detect_vehicles_ml(raised, detections, shape, in_matches, in_counter, line_height, offset) ==
    LET line_y == ClampLine(line_height, shape)
        current == CentroidLoop(detections, 1, <<>>)
        r == CountLoop(current, line_y, offset, in_matches, in_counter)
        base == [kind |-> "ml", raised |-> raised, objects |-> detections,
                 frame_height |-> shape[1],
                 line_height |-> line_height, offset |-> offset, line_y |-> line_y,
                 in_matches |-> in_matches, in_counter |-> in_counter]
    IN  CASE raised = "detect" ->
               base @@ [current |-> <<>>, pool |-> in_matches, counted |-> <<>>,
                        carried_after |-> in_matches,
                        ret_matches |-> in_matches, ret_counter |-> in_counter]
          [] raised = "display" ->
               base @@ [current |-> current, pool |-> r.matches, counted |-> r.counted,
                        carried_after |-> r.matches,
                        ret_matches |-> r.matches, ret_counter |-> in_counter]
          [] OTHER ->
               base @@ [current |-> current, pool |-> r.matches, counted |-> r.counted,
                        carried_after |-> r.matches,
                        ret_matches |-> Prune(r.matches, current),
                        ret_counter |-> r.new_counter]

----------------------------------------------------------------------------
(* SpecTrack: calls of the two trackers chained through the caller's state *)

NoCall == [kind |-> "none"]

NoFrame == [read |-> FALSE]

\* no setup operation performed yet
NoSetupOp == [n |-> 0, op |-> "none"]

\* video_reference_map, lines 78-85, for the menu entries tried
video_reference_map ==
    [src \in {"carPark.mp4", "Video.mp4", "0"} |->
        CASE src = "carPark.mp4" -> "carParkImg.png"
          [] src = "Video.mp4" -> "videoImg.png"
          [] OTHER -> "webcamImg.png"]

ReferenceImages == {video_reference_map[src] : src \in DOMAIN video_reference_map}

\* the position files on disk when the program starts, as what
\* utils.file_utils.load_parking_positions returns for a reference image: the
\* pickled list of its position file, [] when there is no such file
PositionFile(reference_image) ==
    CASE reference_image = "carParkImg.png" -> << <<0, 0, 1, 1>>, <<1, 0, 1, 1>> >>
      [] reference_image = "videoImg.png" -> << <<0, 0, 1, 1>> >>
      [] OTHER -> <<>>

\* the detection tab and the controller as constructed, nothing started
OrchIdle ==
    /\ tab_running = FALSE
    /\ ctl_running = FALSE
    /\ video_source_var = "carPark.mp4"
    /\ detection_mode_var = "parking"
    /\ use_ml_var = FALSE
    /\ detection_mode = "parking"
    /\ video_capture = "none"
    /\ open_captures = 0
    /\ captures_made = 0
    /\ current_reference_image = "carParkImg.png"
    /\ posList = <<>>
    /\ total_spaces = 0
    /\ free_spaces = 0
    /\ occupied_spaces = 0
    /\ stats_data = <<>>
    /\ ui_pc = "idle"
    /\ mon_pc = "check"
    /\ mon_row = <<>>
    /\ frame = NoFrame
    /\ switched = FALSE
    /\ pending = 0
    /\ drawing = "unset"
    /\ start_pt = "unset"
    /\ pos_file = [img \in ReferenceImages |-> PositionFile(img)]
    /\ setup_op = NoSetupOp

\* the trackers' state as ParkingManagementSystem.__init__ sets it, no call made
TrackIdle ==
    /\ matches = <<>>
    /\ vehicle_counter = 0
    /\ self_line_height = DEFAULT_LINE_HEIGHT
    /\ self_offset = DEFAULT_OFFSET
    /\ call = [kind |-> "none"]

NoPrev == [recorded |-> FALSE]

ParkIdle ==
    /\ img_shape = <<0, 0>>
    /\ processed_img = {}
    /\ parking_positions = <<>>
    /\ threshold = 0
    /\ space_counter = 0
    /\ annotations = <<>>
    /\ park_done = FALSE
    /\ park_prev = NoPrev

\* ParkingManagementSystem.__init__: vehicle_counter = 0, matches = []; the
\* line_height and offset arguments are set once (400 and 10 there) and passed
\* unchanged to every call
InitTrack ==
    /\ matches = <<>>
    /\ vehicle_counter = 0
    /\ self_line_height \in LineHeights
    /\ self_offset \in Offsets
    /\ call = NoCall
    /\ ParkIdle
    /\ OrchIdle

\* What the record of a detect_vehicles_ml call keeps of the call before it:
\* the centroids that call counted if it was a completed detect_vehicles_ml
\* call (prev_counted); and, when both calls completed with the same line and
\* offset, the in-band centroids current in both (twice), those of them that
\* were in the pool handed to the first call (first_carried), by how much the
\* first call raised the counter, and whether its frame held one detection.
Repeated(first, second) ==
    LET ml_before == first.kind = "ml" /\ first.raised = "none"
        both == IF /\ ml_before
                   /\ second.raised = "none"
                   /\ first.line_y = second.line_y /\ first.offset = second.offset
                THEN {c \in Range(first.current) \cap Range(second.current) :
                         InBand(c[2], second.line_y, second.offset)}
                ELSE {}
    IN  [prev_counted |-> IF ml_before THEN Range(first.counted) ELSE {},
         twice |-> both,
         first_carried |-> IF both = {} THEN {} ELSE both \cap Range(first.in_matches),
         first_increase |-> IF both = {} THEN 0
                            ELSE first.ret_counter - first.in_counter,
         first_alone |-> both # {} /\ Len(first.current) = 1]

NotRepeated ==
    [prev_counted |-> {}, twice |-> {}, first_carried |-> {},
     first_increase |-> 0, first_alone |-> FALSE]

\* the object lists a frame may yield: at most MaxObjects objects, and no more
\* than the pool has room for
FrameLists(S) ==
    {l \in SeqsUpTo(S, MaxObjects) : Len(matches) + Len(l) <= MaxPool}

\* one frame through the motion tracker; the returned pool and counter are
\* written back
DetectVehiclesTraditional ==
    /\ vehicle_counter < MaxCounter
    /\ \E contours \in FrameLists(Rects), shape \in FrameShapes :
          LET r == detect_vehicles_traditional(contours, shape, MIN_CONTOUR_SIZE,
                        MIN_CONTOUR_SIZE, self_line_height, self_offset, matches,
                        vehicle_counter)
          IN  /\ matches' = r.ret_matches
              /\ vehicle_counter' = r.ret_counter
              /\ call' = r @@ NotRepeated
    /\ UNCHANGED <<self_line_height, self_offset, parkVars, orchVars>>

\* one frame through the detector tracker
DetectVehiclesMl ==
    /\ vehicle_counter < MaxCounter
    /\ \E raised \in Raises, detections \in FrameLists(Boxes),
          shape \in FrameShapes :
        /\ raised = "detect" => detections = <<>>
        /\ LET r == detect_vehicles_ml(raised, detections, shape, matches,
                                       vehicle_counter, self_line_height, self_offset)
           IN  /\ matches' = r.ret_matches
               /\ vehicle_counter' = r.ret_counter
               /\ call' = r @@ Repeated(call, r)
    /\ UNCHANGED <<self_line_height, self_offset, parkVars, orchVars>>

NextTrack == DetectVehiclesTraditional \/ DetectVehiclesMl

SpecTrack == InitTrack /\ [][NextTrack]_vars

----------------------------------------------------------------------------
(* SpecMotion: frames through the motion tracker only, from the initial
   state; SpecDetector: frames through the detector tracker only, the
   detector not failing.  The record of a call also keeps what the sequence
   of calls has done so far. *)

\* frames per sequence
MaxCalls == 3

\* contours of the motion sequences: centroid (160, 400) on the line 400,
\* centroid (130, 430) on the clamped line 430, and one not high enough
MotionRects == { <<140, 380, 40, 40>>, <<110, 410, 40, 40>>, <<140, 390, 40, 20>> }

\* boxes of the detector sequences: centroids (160, 400), (160, 403) and
\* (130, 430), each less than 50 px from the others
DetectorBoxes == { <<140, 380, 180, 420>>, <<140, 383, 180, 424>>, <<110, 410, 150, 450>> }

\* the sequence so far, before the first call
NoSequence ==
    [calls |-> 0, made_in |-> 0, made_out |-> 0, ever_counted |-> {},
     prev_empty |-> FALSE, prev_dropped |-> {}]

SequenceSoFar == IF call.kind = "none" THEN NoSequence ELSE call

\* the rows of the centroids of the size-valid contours of a frame
ValidRows(contours) ==
    LET valid == SelectSeq(contours, LAMBDA c : c[3] >= MIN_CONTOUR_SIZE
                                               /\ c[4] >= MIN_CONTOUR_SIZE)
    IN  [k \in 1..Len(valid) |-> valid[k][2] + (valid[k][4] \div 2)]

\* one frame through the motion tracker; made_in and made_out count the
\* size-valid contours of all frames so far whose centroid was inside and
\* outside the band in the frame that produced it
MotionFrame ==
    /\ vehicle_counter < MaxCounter
    /\ SequenceSoFar.calls < MaxCalls
    /\ \E contours \in FrameLists(MotionRects), shape \in FrameShapes :
          LET r == detect_vehicles_traditional(contours, shape, MIN_CONTOUR_SIZE,
                        MIN_CONTOUR_SIZE, self_line_height, self_offset, matches,
                        vehicle_counter)
              rows == ValidRows(contours)
              inside == {k \in DOMAIN rows : /\ r.line_y - r.offset < rows[k]
                                             /\ rows[k] < r.line_y + r.offset}
          IN  /\ matches' = r.ret_matches
              /\ vehicle_counter' = r.ret_counter
              /\ call' = r @@ NotRepeated @@
                     [calls |-> SequenceSoFar.calls + 1,
                      made_in |-> SequenceSoFar.made_in + Cardinality(inside),
                      made_out |-> SequenceSoFar.made_out + Len(rows) - Cardinality(inside),
                      ever_counted |-> {}, prev_empty |-> FALSE, prev_dropped |-> {}]
    /\ UNCHANGED <<self_line_height, self_offset, parkVars, orchVars>>

NextMotion == MotionFrame

SpecMotion == InitTrack /\ [][NextMotion]_vars

\* one frame through the detector tracker; ever_counted holds the centroids
\* counted by any call so far, prev_empty says that the call before had no
\* detection and prev_dropped holds the pool that call was handed
DetectorFrame ==
    /\ vehicle_counter < MaxCounter
    /\ SequenceSoFar.calls < MaxCalls
    /\ \E detections \in FrameLists(DetectorBoxes), shape \in FrameShapes :
          LET r == detect_vehicles_ml("none", detections, shape, matches,
                                      vehicle_counter, self_line_height, self_offset)
          IN  /\ matches' = r.ret_matches
              /\ vehicle_counter' = r.ret_counter
              /\ call' = r @@ NotRepeated @@
                     [calls |-> SequenceSoFar.calls + 1,
                      made_in |-> 0, made_out |-> 0,
                      ever_counted |-> SequenceSoFar.ever_counted \cup Range(r.counted),
                      counted_before |-> SequenceSoFar.ever_counted,
                      prev_empty |-> (call.kind = "ml" /\ call.current = <<>>),
                      prev_dropped |-> IF call.kind = "ml" /\ call.current = <<>>
                                       THEN Range(call.in_matches) ELSE {}]
    /\ UNCHANGED <<self_line_height, self_offset, parkVars, orchVars>>

NextDetector == DetectorFrame

SpecDetector == InitTrack /\ [][NextDetector]_vars

----------------------------------------------------------------------------
(* SpecCentroid: the two centroid computations applied to one box *)

\* coordinates of the boxes tried run from -MaxCoord to MaxCoord
MaxCoord == 3

Coords == (0 - MaxCoord)..MaxCoord

\* integer boxes <<x1, y1, x2, y2>>: even and odd widths, negative
\* coordinates, corners in either order
CentroidBoxes == Coords \X Coords \X Coords \X Coords

InitCentroid ==
    /\ matches = <<>>
    /\ vehicle_counter = 0
    /\ self_line_height = DEFAULT_LINE_HEIGHT
    /\ self_offset = DEFAULT_OFFSET
    /\ \E b \in CentroidBoxes : call = [kind |-> "box", box |-> b]
    /\ ParkIdle
    /\ OrchIdle

\* the box as the bounding rectangle of a contour (lines 33, 41) and as a
\* detection (lines 74-81)
ComputeCentroids ==
    /\ call.kind = "box"
    /\ LET b == call.box
       IN  call' = [kind |-> "centroid", box |-> b,
                    motion |-> get_centroid(b[1], b[2], b[3] - b[1], b[4] - b[2]),
                    detector |-> CentroidLoop(<<b>>, 1, <<>>)[1]]
    /\ UNCHANGED <<matches, vehicle_counter, self_line_height, self_offset, parkVars, orchVars>>

NextCentroid == ComputeCentroids

SpecCentroid == InitCentroid /\ [][NextCentroid]_vars

----------------------------------------------------------------------------
(* SpecClamp: one call of either tracker, from the initial state, on frames of
   several heights with several configured line heights *)

\* frame.shape values tried: fewer than 50 rows, exactly 50, and two video sizes
ClampShapes == {<<40, 640>>, <<50, 640>>, <<480, 640>>, <<720, 1280>>}

\* line_height arguments tried: below, at and above each frame height
ClampLineHeights == {0, 39, 40, 49, 50, 51, 400, 479, 480, 481, 719, 720, 721, 1000}

\* centroid rows of the single object of the frame: on the line each clamped
\* or unclamped line_height gives, and on the edge of its band
ClampRows == {20, 30, 400, 430, 440, 670}

\* the 40 x 40 bounding rectangles with such a centroid that fit in the frame
ClampRects(shape) ==
    {<<100, cy - 20, 40, 40>> : cy \in {y \in ClampRows : y + 20 <= shape[1]}}

\* the same as detector boxes <<x1, y1, x2, y2>>
ClampBoxes(shape) ==
    {<<100, cy - 20, 140, cy + 20>> : cy \in {y \in ClampRows : y + 20 <= shape[1]}}

InitClamp ==
    /\ matches = <<>>
    /\ vehicle_counter = 0
    /\ self_line_height \in ClampLineHeights
    /\ self_offset \in Offsets
    /\ call = NoCall
    /\ ParkIdle
    /\ OrchIdle

\* the first frame through the motion tracker
ClampTraditional ==
    /\ call = NoCall
    /\ \E shape \in ClampShapes :
         \E contours \in {<<>>} \cup {<<c>> : c \in ClampRects(shape)} :
          LET r == detect_vehicles_traditional(contours, shape, MIN_CONTOUR_SIZE,
                        MIN_CONTOUR_SIZE, self_line_height, self_offset, matches,
                        vehicle_counter)
          IN  /\ matches' = r.ret_matches
              /\ vehicle_counter' = r.ret_counter
              /\ call' = r @@ NotRepeated
    /\ UNCHANGED <<self_line_height, self_offset, parkVars, orchVars>>

\* the first frame through the detector tracker, the detector not failing
ClampMl ==
    /\ call = NoCall
    /\ \E shape \in ClampShapes :
         \E detections \in {<<>>} \cup {<<d>> : d \in ClampBoxes(shape)} :
          LET r == detect_vehicles_ml("none", detections, shape, matches,
                                      vehicle_counter, self_line_height, self_offset)
          IN  /\ matches' = r.ret_matches
              /\ vehicle_counter' = r.ret_counter
              /\ call' = r @@ NotRepeated
    /\ UNCHANGED <<self_line_height, self_offset, parkVars, orchVars>>

NextClamp == ClampTraditional \/ ClampMl

SpecClamp == InitClamp /\ [][NextClamp]_vars

----------------------------------------------------------------------------
(* SpecOrch: the handlers of the detection tab, run one at a time by the
   user-interface thread, and the monitoring thread started by
   ParkingManagementSystem.__init__.  No method of either class acquires
   data_lock (created at line 71), so the steps of the two threads interleave
   wherever the interpreter may switch threads. *)

MaxCaptures == 2        \* detection is started at most this many times
MaxStats == 1           \* the monitoring thread records at most this many rows

\* entries of the video-source menu (detection_tab.py line 44) tried; the
\* other file entries behave as "Video.mp4"
VideoSources == DOMAIN video_reference_map

DetectionModes == {"parking", "counting"}

\* what a frame read from the capture holds for the pipelines: the contours
\* frame differencing finds in it and the boxes the detector reports.  The
\* first centroid, (100, 390), is on the edge of the band around line 400; the
\* second, (160, 400), is on the line.
OrchFrames ==
    { [contours |-> <<>>, detections |-> <<>>],
      [contours |-> << <<80, 370, 40, 40>> >>, detections |-> << <<80, 370, 120, 410>> >>],
      [contours |-> << <<140, 380, 40, 40>> >>, detections |-> << <<140, 380, 180, 420>> >>] }

\* ParkingManagementSystem.__init__ followed by DetectionTab.__init__:
\* load_parking_positions() and setup_ui set the three counts, the monitoring
\* thread is started
InitOrch ==
    /\ tab_running = FALSE
    /\ ctl_running = FALSE
    /\ video_source_var = "carPark.mp4"
    /\ detection_mode_var = "parking"
    /\ use_ml_var = FALSE
    /\ detection_mode = "parking"
    /\ video_capture = "none"
    /\ open_captures = 0
    /\ captures_made = 0
    /\ current_reference_image = "carParkImg.png"
    /\ posList = PositionFile("carParkImg.png")
    /\ total_spaces = Len(posList)
    /\ free_spaces = 0
    /\ occupied_spaces = total_spaces
    /\ stats_data = <<>>
    /\ ui_pc = "idle"
    /\ mon_pc = "check"
    /\ mon_row = <<>>
    /\ frame = NoFrame
    /\ switched = FALSE
    /\ pending = 0
    /\ drawing = "unset"
    /\ start_pt = "unset"
    /\ pos_file = [img \in ReferenceImages |-> PositionFile(img)]
    /\ setup_op = NoSetupOp
    /\ TrackIdle
    /\ ParkIdle

\* the stop branch with the release of lines 111-112 left out
toggle_detection_stop_norelease(capture, n_open) ==
    [tab_running |-> FALSE, ctl_running |-> FALSE,
     video_capture |-> capture, open_captures |-> n_open]

\* toggle_detection, lines 105-114: the stop branch.  A capture object is
\* truthy; releasing a capture that is not open changes nothing.
toggle_detection_stop(capture, n_open) ==
    [tab_running |-> FALSE, ctl_running |-> FALSE,
     video_capture |-> IF capture = "none" THEN "none" ELSE "released",
     open_captures |-> IF capture = "open" THEN n_open - 1 ELSE n_open]

\* toggle_detection, lines 81-102 up to the call of process_video_frame: the
\* start branch.  found: the video file exists (or the source is the
\* webcam); opened: the capture reports isOpened().  Both failures raise into
\* the handler of lines 116-119.
toggle_detection_start(capture, n_open, found, opened) ==
    IF ~found
    THEN [tab_running |-> FALSE, ctl_running |-> FALSE,
          video_capture |-> capture, open_captures |-> n_open, reading |-> FALSE]
    ELSE IF ~opened
    THEN [tab_running |-> FALSE, ctl_running |-> FALSE,
          video_capture |-> "unopened", open_captures |-> n_open, reading |-> FALSE]
    ELSE [tab_running |-> TRUE, ctl_running |-> TRUE,
          video_capture |-> "open", open_captures |-> n_open + 1, reading |-> TRUE]

\* the Start/Stop button: toggle_detection, lines 78-119.  After a successful
\* start the handler goes on into process_video_frame (line 102).
ToggleDetection ==
    /\ ui_pc = "idle"
    /\ IF tab_running
       THEN LET r == toggle_detection_stop(video_capture, open_captures)
            IN  /\ tab_running' = r.tab_running
                /\ ctl_running' = r.ctl_running
                /\ video_capture' = r.video_capture
                /\ open_captures' = r.open_captures
                /\ UNCHANGED <<captures_made, ui_pc>>
       ELSE /\ captures_made < MaxCaptures
            /\ \E found \in BOOLEAN, opened \in BOOLEAN :
                  LET r == toggle_detection_start(video_capture, open_captures,
                                                  found, opened)
                  IN  /\ (video_source_var = "0") => found
                      /\ tab_running' = r.tab_running
                      /\ ctl_running' = r.ctl_running
                      /\ video_capture' = r.video_capture
                      /\ open_captures' = r.open_captures
                      /\ captures_made' = IF found THEN captures_made + 1
                                          ELSE captures_made
                      /\ ui_pc' = IF r.reading THEN "read" ELSE "idle"
    /\ UNCHANGED <<video_source_var, detection_mode_var, use_ml_var, detection_mode,
                   current_reference_image, posList, total_spaces, free_spaces,
                   occupied_spaces, stats_data, mon_pc, mon_row, frame, switched,
                   pending, setupVars, trackVars, parkVars>>

\* the pipeline the mode selector names for a frame
SelectedPipeline(mode, use_ml) ==
    IF mode = "parking" THEN "classifier"
    ELSE IF use_ml THEN "detector tracker" ELSE "motion tracker"

\* the cycle logging the failure without calling toggle_detection
ProcessVideoFrameNoStop ==
    /\ ui_pc = "read"
    /\ tab_running /\ video_capture # "none"
    /\ \E outcome \in {"frame", "no frame", "error"}, content \in OrchFrames :
          /\ outcome # "frame" => content = [contours |-> <<>>, detections |-> <<>>]
          /\ frame' = [read |-> outcome = "frame",
                       mode |-> detection_mode_var, use_ml |-> use_ml_var,
                       content |-> content,
                       carried |-> matches, in_counter |-> vehicle_counter,
                       after_switch |-> switched,
                       ran |-> "none"]
    /\ ui_pc' = "idle"
    /\ UNCHANGED <<tab_running, ctl_running, video_capture, open_captures,
                   video_source_var, detection_mode_var, use_ml_var, detection_mode,
                   captures_made, current_reference_image, posList, total_spaces,
                   free_spaces, occupied_spaces, stats_data, mon_pc, mon_row,
                   switched, pending, setupVars, trackVars, parkVars>>

\* process_video_frame, lines 121-155, one cycle.  A frame that is read is
\* handed to controller.process_parking_frame or
\* controller.process_counting_frame (lines 132, 135); ParkingManagementSystem
\* defines neither, so the attribute lookup raises and the handler of lines
\* 153-155 logs the error and calls toggle_detection, which stops.  A failed
\* read (line 148) and a raising read end in the same toggle_detection.
ProcessVideoFrame ==
    /\ ui_pc = "read"
    /\ tab_running /\ video_capture # "none"
    /\ \E outcome \in {"frame", "no frame", "error"}, content \in OrchFrames :
          /\ outcome # "frame" => content = [contours |-> <<>>, detections |-> <<>>]
          /\ frame' = [read |-> outcome = "frame",
                       mode |-> detection_mode_var, use_ml |-> use_ml_var,
                       content |-> content,
                       carried |-> matches, in_counter |-> vehicle_counter,
                       after_switch |-> switched,
                       ran |-> "none"]
    /\ LET r == toggle_detection_stop(video_capture, open_captures)
       IN  /\ tab_running' = r.tab_running
           /\ ctl_running' = r.ctl_running
           /\ video_capture' = r.video_capture
           /\ open_captures' = r.open_captures
    /\ ui_pc' = "idle"
    /\ UNCHANGED <<video_source_var, detection_mode_var, use_ml_var, detection_mode,
                   captures_made, current_reference_image, posList, total_spaces,
                   free_spaces, occupied_spaces, stats_data, mon_pc, mon_row,
                   switched, pending, setupVars,
                   trackVars, parkVars>>

\* _on_video_source_change, lines 192-205, through line 137 of
\* load_parking_positions: detection is stopped if running, the reference
\* image of the source becomes current, its positions are loaded and
\* total_spaces is set
OnVideoSourceChange ==
    /\ ui_pc = "idle"
    /\ \E source \in VideoSources :
          /\ video_source_var' = source
          /\ current_reference_image' = video_reference_map[source]
          /\ posList' = pos_file[video_reference_map[source]]
          /\ total_spaces' = Len(pos_file[video_reference_map[source]])
    /\ IF tab_running
       THEN LET r == toggle_detection_stop(video_capture, open_captures)
            IN  /\ tab_running' = r.tab_running
                /\ ctl_running' = r.ctl_running
                /\ video_capture' = r.video_capture
                /\ open_captures' = r.open_captures
       ELSE UNCHANGED <<tab_running, ctl_running, video_capture, open_captures>>
    /\ ui_pc' = "load_free"
    /\ UNCHANGED <<detection_mode_var, use_ml_var, detection_mode, captures_made,
                   free_spaces, occupied_spaces, stats_data, mon_pc, mon_row,
                   frame, switched, pending, setupVars,
                   trackVars, parkVars>>

\* load_parking_positions, line 138
LoadFree ==
    /\ ui_pc = "load_free"
    /\ free_spaces' = 0
    /\ ui_pc' = "load_occupied"
    /\ UNCHANGED <<tab_running, ctl_running, video_source_var, detection_mode_var,
                   use_ml_var, detection_mode, video_capture, open_captures,
                   captures_made, current_reference_image, posList, total_spaces,
                   occupied_spaces, stats_data, mon_pc, mon_row, frame, switched,
                   pending, setupVars, trackVars, parkVars>>

\* load_parking_positions returning after line 138
LoadOccupiedSkipped ==
    /\ ui_pc = "load_occupied"
    /\ ui_pc' = "idle"
    /\ UNCHANGED <<tab_running, ctl_running, video_source_var, detection_mode_var,
                   use_ml_var, detection_mode, video_capture, open_captures,
                   captures_made, current_reference_image, posList, total_spaces,
                   free_spaces, occupied_spaces, stats_data, mon_pc, mon_row,
                   frame, switched, pending, setupVars,
                   trackVars, parkVars>>

\* load_parking_positions, line 139, and the return to the event loop
LoadOccupied ==
    /\ ui_pc = "load_occupied"
    /\ occupied_spaces' = total_spaces
    /\ ui_pc' = "idle"
    /\ UNCHANGED <<tab_running, ctl_running, video_source_var, detection_mode_var,
                   use_ml_var, detection_mode, video_capture, open_captures,
                   captures_made, current_reference_image, posList, total_spaces,
                   free_spaces, stats_data, mon_pc, mon_row, frame, switched,
                   pending, setupVars, trackVars, parkVars>>

\* _on_detection_mode_change, lines 209-219
OnDetectionModeChange ==
    /\ ui_pc = "idle"
    /\ \E mode \in DetectionModes :
          /\ detection_mode_var' = mode
          /\ detection_mode' = mode
          /\ switched' = (switched \/ (tab_running /\ mode # detection_mode_var))
    /\ IF tab_running
       THEN LET r == toggle_detection_stop(video_capture, open_captures)
            IN  /\ tab_running' = r.tab_running
                /\ ctl_running' = r.ctl_running
                /\ video_capture' = r.video_capture
                /\ open_captures' = r.open_captures
       ELSE UNCHANGED <<tab_running, ctl_running, video_capture, open_captures>>
    /\ UNCHANGED <<video_source_var, use_ml_var, captures_made,
                   current_reference_image, posList, total_spaces, free_spaces,
                   occupied_spaces, stats_data, ui_pc, mon_pc, mon_row, frame,
                   pending, setupVars, trackVars, parkVars>>

\* the "Toggle ML" button, line 54
ToggleMl ==
    /\ ui_pc = "idle"
    /\ use_ml_var' = ~use_ml_var
    /\ UNCHANGED <<tab_running, ctl_running, video_source_var, detection_mode_var,
                   detection_mode, video_capture, open_captures, captures_made,
                   current_reference_image, posList, total_spaces, free_spaces,
                   occupied_spaces, stats_data, ui_pc, mon_pc, mon_row, frame,
                   switched, pending, setupVars,
                   trackVars, parkVars>>

uiVars == <<tab_running, ctl_running, video_source_var, detection_mode_var,
            use_ml_var, detection_mode, video_capture, open_captures,
            captures_made, current_reference_image, posList, total_spaces,
            free_spaces, occupied_spaces, ui_pc, frame, switched, pending,
            drawing, start_pt, pos_file, setup_op>>

\* monitoring_thread, line 226: the test of self.running; when it fails the
\* thread sleeps and tests again
MonitorCheck ==
    /\ mon_pc = "check"
    /\ Len(stats_data) < MaxStats
    /\ ctl_running
    /\ mon_pc' = "total"
    /\ mon_row' = <<>>
    /\ UNCHANGED <<uiVars, stats_data, trackVars, parkVars>>

\* record_current_stats, line 522
MonitorReadTotal ==
    /\ mon_pc = "total"
    /\ mon_row' = <<total_spaces>>
    /\ mon_pc' = "free"
    /\ UNCHANGED <<uiVars, stats_data, trackVars, parkVars>>

\* line 523
MonitorReadFree ==
    /\ mon_pc = "free"
    /\ mon_row' = Append(mon_row, free_spaces)
    /\ mon_pc' = "occupied"
    /\ UNCHANGED <<uiVars, stats_data, trackVars, parkVars>>

\* line 524
MonitorReadOccupied ==
    /\ mon_pc = "occupied"
    /\ mon_row' = Append(mon_row, occupied_spaces)
    /\ mon_pc' = "counter"
    /\ UNCHANGED <<uiVars, stats_data, trackVars, parkVars>>

\* lines 525-528: the counter is read and the row appended; the thread then
\* sleeps (line 230) and tests self.running again
MonitorRecord ==
    /\ mon_pc = "counter"
    /\ stats_data' = Append(stats_data,
                         [total_spaces |-> mon_row[1], free_spaces |-> mon_row[2],
                          occupied_spaces |-> mon_row[3],
                          vehicle_counter |-> vehicle_counter])
    /\ mon_row' = <<>>
    /\ mon_pc' = "check"
    /\ UNCHANGED <<uiVars, trackVars, parkVars>>

NextOrch ==
    \/ ToggleDetection
    \/ ProcessVideoFrame
    \/ OnVideoSourceChange
    \/ LoadFree
    \/ LoadOccupied
    \/ OnDetectionModeChange
    \/ ToggleMl
    \/ MonitorCheck
    \/ MonitorReadTotal
    \/ MonitorReadFree
    \/ MonitorReadOccupied
    \/ MonitorRecord

SpecOrch == InitOrch /\ [][NextOrch]_vars

----------------------------------------------------------------------------
(* SpecLoop: the handlers of the detection tab alone.  toggle_detection calls
   process_video_frame itself (line 102), so once detection has started the
   user-interface thread goes on into the cycle: weak fairness of
   ProcessVideoFrame. *)

NextLoop ==
    \/ ToggleDetection
    \/ ProcessVideoFrame
    \/ OnVideoSourceChange
    \/ LoadFree
    \/ LoadOccupied
    \/ OnDetectionModeChange
    \/ ToggleMl

SpecLoop == InitOrch /\ [][NextLoop]_vars /\ WF_vars(ProcessVideoFrame)

----------------------------------------------------------------------------
(* SpecOrchPool: the same handlers, with the two controller methods that
   process_video_frame calls (lines 132 and 135) and src/ does not define
   taken from section 4.4 of the specification: the frame goes to the
   pipeline the mode selector names and what the pipeline returns is written
   back.  The monitoring thread is left out. *)

DEFAULT_THRESHOLD == 500

\* process_video_frame, lines 121-155, one cycle, the controller methods being
\* as specified.  The cycle is entered from toggle_detection (line 102) or,
\* the thread being idle, by the event loop running one of the callbacks
\* scheduled with after().  After a frame the next cycle is scheduled (line
\* 147) and the handler returns to the event loop.
ProcessVideoFrameDispatch ==
    /\ ui_pc = "read" \/ (ui_pc = "idle" /\ pending > 0)
    /\ tab_running /\ video_capture # "none"
    /\ vehicle_counter < MaxCounter
    /\ Len(matches) < MaxPool
    /\ \E outcome \in {"frame", "no frame"}, content \in OrchFrames :
          /\ outcome # "frame" => content = [contours |-> <<>>, detections |-> <<>>]
          /\ pending' = pending - (IF ui_pc = "idle" THEN 1 ELSE 0)
                                + (IF outcome = "frame" THEN 1 ELSE 0)
          /\ frame' = [read |-> outcome = "frame",
                       mode |-> detection_mode_var, use_ml |-> use_ml_var,
                       content |-> content,
                       carried |-> matches, in_counter |-> vehicle_counter,
                       after_switch |-> switched,
                       ran |-> IF outcome = "frame"
                               THEN SelectedPipeline(detection_mode_var, use_ml_var)
                               ELSE "none"]
          /\ IF outcome # "frame"
             THEN LET r == toggle_detection_stop(video_capture, open_captures)
                  IN  /\ tab_running' = r.tab_running
                      /\ ctl_running' = r.ctl_running
                      /\ video_capture' = r.video_capture
                      /\ open_captures' = r.open_captures
                      /\ UNCHANGED <<free_spaces, occupied_spaces, matches,
                                     vehicle_counter, switched>>
             ELSE /\ UNCHANGED <<tab_running, ctl_running, video_capture, open_captures>>
                  /\ IF detection_mode_var = "parking"
                     THEN LET r == check_parking_space({}, <<2, 3>>, posList,
                                                       DEFAULT_THRESHOLD)
                          IN  /\ free_spaces' = r.space_counter
                              /\ occupied_spaces' = total_spaces - r.space_counter
                              /\ UNCHANGED <<matches, vehicle_counter, switched>>
                     ELSE LET r == IF use_ml_var
                                   THEN detect_vehicles_ml("none", content.detections,
                                           <<480, 640>>, matches, vehicle_counter,
                                           self_line_height, self_offset)
                                   ELSE detect_vehicles_traditional(content.contours,
                                           <<480, 640>>, MIN_CONTOUR_SIZE,
                                           MIN_CONTOUR_SIZE, self_line_height,
                                           self_offset, matches, vehicle_counter)
                          IN  /\ matches' = r.ret_matches
                              /\ vehicle_counter' = r.ret_counter
                              /\ switched' = FALSE
                              /\ UNCHANGED <<free_spaces, occupied_spaces>>
    /\ ui_pc' = "idle"
    /\ UNCHANGED <<video_source_var, detection_mode_var, use_ml_var, detection_mode,
                   captures_made, current_reference_image, posList, total_spaces,
                   stats_data, mon_pc, mon_row, setupVars,
                   self_line_height, self_offset, call, parkVars>>

\* a scheduled callback run while detection is stopped: the test of line 123
\* fails and process_video_frame returns
StaleCallback ==
    /\ ui_pc = "idle"
    /\ pending > 0
    /\ ~(tab_running /\ video_capture # "none")
    /\ pending' = pending - 1
    /\ UNCHANGED <<tab_running, ctl_running, video_source_var, detection_mode_var,
                   use_ml_var, detection_mode, video_capture, open_captures,
                   captures_made, current_reference_image, posList, total_spaces,
                   free_spaces, occupied_spaces, stats_data, ui_pc, mon_pc, mon_row,
                   frame, switched, setupVars, trackVars, parkVars>>

NextOrchPool ==
    \/ ToggleDetection
    \/ ProcessVideoFrameDispatch
    \/ StaleCallback
    \/ OnVideoSourceChange
    \/ LoadFree
    \/ LoadOccupied
    \/ OnDetectionModeChange
    \/ ToggleMl

SpecOrchPool == InitOrch /\ [][NextOrchPool]_vars

----------------------------------------------------------------------------
(* SpecSetup: the handlers of the setup tab (the mouse handlers bound at
   setup_tab.py lines 94-97 and the buttons of lines 60-72), all methods of
   ParkingManagementSystem, together with the video-source handler of the
   detection tab, which calls load_parking_positions.  setup_tab_controller
   is assigned at line 162, before any event is delivered. *)

MaxOps == 4             \* setup operations per behaviour

MIN_DRAW_SIZE == 20     \* line 342

\* where the mouse is pressed, released and right-clicked: (0,0)-(20,20) is
\* 20 x 20, (0,0)-(21,50) is 21 wide, (20,20)-(50,21) is 1 high, and
\* (21,50)-(50,21) has its corner (21,21) at neither point
Points == { <<0, 0>>, <<20, 20>>, <<21, 50>>, <<50, 21>> }

\* what the setup handlers leave alone
detectionVars == <<tab_running, ctl_running, video_source_var, detection_mode_var, use_ml_var, detection_mode, video_capture, open_captures, captures_made, total_spaces, free_spaces, occupied_spaces, stats_data, ui_pc, mon_pc, mon_row, frame, switched, pending>>

\* lines 337-340: [x1, y1, width, height] of the rectangle between the press
\* and the release point
DrawnRegion(press, release) ==
    LET x1 == IF press[1] < release[1] THEN press[1] ELSE release[1]
        y1 == IF press[2] < release[2] THEN press[2] ELSE release[2]
        x2 == IF press[1] > release[1] THEN press[1] ELSE release[1]
        y2 == IF press[2] > release[2] THEN press[2] ELSE release[2]
    IN  <<x1, y1, x2 - x1, y2 - y1>>

\* the size check written with >= instead of >
MinSizeOkClosed(width, height) == width >= MIN_DRAW_SIZE /\ height >= MIN_DRAW_SIZE

\* line 342
MinSizeOk(width, height) == width > MIN_DRAW_SIZE /\ height > MIN_DRAW_SIZE

\* load_reference_image, lines 368-413, current_reference_image being set:
\* when the image file is missing or unreadable it returns False (lines
\* 378-386) and the list stays; otherwise the list is replaced by what
\* load_parking_positions reads from the image's position file (line 396)
load_reference_image(readable, positions, loaded) ==
    [ret |-> readable, posList |-> IF readable THEN loaded ELSE positions]

\* on_right_click, lines 358-359: the first region containing the point, 0 if none
FirstHit(positions, pt) ==
    LET hits == {i \in DOMAIN positions :
                    /\ positions[i][1] <= pt[1]
                    /\ pt[1] <= positions[i][1] + positions[i][3]
                    /\ positions[i][2] <= pt[2]
                    /\ pt[2] <= positions[i][2] + positions[i][4]}
    IN  IF hits = {} THEN 0 ELSE CHOOSE i \in hits : \A j \in hits : i <= j

\* on_mouse_down, lines 301-311
OnMouseDown ==
    /\ ui_pc = "idle"
    /\ setup_op.n < MaxOps
    /\ \E pt \in Points :
          /\ drawing' = "True"
          /\ start_pt' = pt
          /\ setup_op' = [n |-> setup_op.n + 1, op |-> "on_mouse_down", pt |-> pt]
    /\ UNCHANGED <<current_reference_image, posList, pos_file, detectionVars, trackVars, parkVars>>

\* on_mouse_up, lines 328-351.  Before the first on_mouse_down the controller
\* has no attribute drawing: the test of line 331 raises and the handler
\* logs (line 351).
OnMouseUp ==
    /\ ui_pc = "idle"
    /\ setup_op.n < MaxOps
    /\ \E pt \in Points :
          LET r == IF drawing = "True" THEN DrawnRegion(start_pt, pt) ELSE <<0, 0, 0, 0>>
              append == drawing = "True" /\ MinSizeOk(r[3], r[4])
          IN  /\ drawing' = IF drawing = "True" THEN "False" ELSE drawing
              /\ posList' = IF append THEN Append(posList, r) ELSE posList
              /\ setup_op' = [n |-> setup_op.n + 1, op |-> "on_mouse_up", pt |-> pt,
                              press |-> start_pt, was_drawing |-> drawing,
                              appended |-> append]
    /\ UNCHANGED <<start_pt, current_reference_image, pos_file, detectionVars, trackVars, parkVars>>

\* on_right_click, lines 353-366: the first region containing the point is
\* popped and load_reference_image() is called to refresh the display
OnRightClick ==
    /\ ui_pc = "idle"
    /\ setup_op.n < MaxOps
    /\ \E pt \in Points, readable \in BOOLEAN :
          LET i == FirstHit(posList, pt)
              r == load_reference_image(readable, RemoveAt(posList, i),
                                        pos_file[current_reference_image])
          IN  /\ (i = 0) => readable
              /\ posList' = IF i = 0 THEN posList ELSE r.posList
              /\ setup_op' = [n |-> setup_op.n + 1, op |-> "on_right_click", pt |-> pt,
                              popped |-> i # 0, reloaded |-> (i # 0 /\ readable)]
    /\ UNCHANGED <<drawing, start_pt, current_reference_image, pos_file, detectionVars, trackVars, parkVars>>

\* clear_all_spaces, lines 256-272: the list is cleared, load_reference_image()
\* is called to refresh the canvas, and True is returned
ClearAllSpaces ==
    /\ ui_pc = "idle"
    /\ setup_op.n < MaxOps
    /\ \E readable \in BOOLEAN :
          LET r == load_reference_image(readable, <<>>, pos_file[current_reference_image])
          IN  /\ posList' = r.posList
              /\ setup_op' = [n |-> setup_op.n + 1, op |-> "clear_all_spaces",
                              ret |-> TRUE, reloaded |-> readable,
                              saved |-> pos_file[current_reference_image]]
    /\ UNCHANGED <<drawing, start_pt, current_reference_image, pos_file, detectionVars, trackVars, parkVars>>

\* save_parking_spaces, lines 233-254: the list is pickled into the position
\* file of the current reference image, unless writing fails
SaveParkingSpaces ==
    /\ ui_pc = "idle"
    /\ setup_op.n < MaxOps
    /\ \E written \in BOOLEAN :
          /\ pos_file' = IF written
                         THEN [pos_file EXCEPT ![current_reference_image] = posList]
                         ELSE pos_file
          /\ setup_op' = [n |-> setup_op.n + 1, op |-> "save_parking_spaces",
                          ret |-> written]
    /\ UNCHANGED <<drawing, start_pt, current_reference_image, posList, detectionVars, trackVars, parkVars>>

\* SetupTab.on_reference_image_change, setup_tab.py lines 99-103:
\* load_reference_image(value)
OnReferenceImageChange ==
    /\ ui_pc = "idle"
    /\ setup_op.n < MaxOps
    /\ \E img \in ReferenceImages, readable \in BOOLEAN :
          LET r == load_reference_image(readable, posList, pos_file[img])
          IN  /\ current_reference_image' = img
              /\ posList' = r.posList
              /\ setup_op' = [n |-> setup_op.n + 1, op |-> "load_reference_image",
                              ret |-> r.ret]
    /\ UNCHANGED <<drawing, start_pt, pos_file, detectionVars, trackVars, parkVars>>

NextSetup ==
    \/ OnMouseDown
    \/ OnMouseUp
    \/ OnRightClick
    \/ ClearAllSpaces
    \/ SaveParkingSpaces
    \/ OnReferenceImageChange
    \/ OnVideoSourceChange
    \/ LoadFree
    \/ LoadOccupied

SpecSetup == InitOrch /\ [][NextSetup]_vars

----------------------------------------------------------------------------
(* SpecPark: one call of the classifier on every mask, region list and threshold *)

\* the arguments of the call: any mask, region list and threshold within bounds
InitPark ==
    /\ img_shape \in ImgShapes
    /\ processed_img \in SUBSET Pixels(img_shape)
    /\ parking_positions \in SeqsUpTo(Regions, MaxRegions)
    /\ threshold \in 0..MaxThreshold
    /\ space_counter = 0
    /\ annotations = <<>>
    /\ park_done = FALSE
    /\ park_prev = NoPrev
    /\ TrackIdle
    /\ OrchIdle

\* the call: lines 22-46
CheckParkingSpace ==
    /\ ~park_done
    /\ LET r == check_parking_space(processed_img, img_shape, parking_positions, threshold)
       IN  /\ space_counter' = r.space_counter
           /\ annotations' = r.annotations
    /\ park_done' = TRUE
    /\ UNCHANGED <<processed_img, img_shape, parking_positions, threshold, park_prev, trackVars, orchVars>>

NextPark == CheckParkingSpace

SpecPark == InitPark /\ [][NextPark]_vars

----------------------------------------------------------------------------
(* SpecParkRepeat: check_parking_space called twice on the same mask and
   region list, the second time with any threshold *)

\* regions of the repeated calls: three scored ones holding the pixels
\* (0, 0), (0, 1) and both, and one past the right edge
RepeatRegions == { <<0, 0, 1, 1>>, <<1, 0, 1, 1>>, <<0, 0, 2, 1>>, <<2, 0, 2, 1>> }

InitParkRepeat ==
    /\ img_shape \in ImgShapes
    /\ processed_img \in SUBSET Pixels(img_shape)
    /\ parking_positions \in SeqsUpTo(RepeatRegions, MaxRegions)
    /\ threshold \in 0..MaxThreshold
    /\ space_counter = 0
    /\ annotations = <<>>
    /\ park_done = FALSE
    /\ park_prev = NoPrev
    /\ TrackIdle
    /\ OrchIdle

\* the second call: lines 22-46 again, the caller holding the first result
CheckParkingSpaceAgain ==
    /\ park_done
    /\ ~park_prev.recorded
    /\ \E thr \in 0..MaxThreshold :
          LET r == check_parking_space(processed_img, img_shape, parking_positions, thr)
          IN  /\ threshold' = thr
              /\ space_counter' = r.space_counter
              /\ annotations' = r.annotations
    /\ park_prev' = [recorded |-> TRUE, threshold |-> threshold,
                     space_counter |-> space_counter]
    /\ UNCHANGED <<processed_img, img_shape, parking_positions, park_done, trackVars, orchVars>>

NextParkRepeat == CheckParkingSpace \/ CheckParkingSpaceAgain

SpecParkRepeat == InitParkRepeat /\ [][NextParkRepeat]_vars

----------------------------------------------------------------------------
(* Properties of check_parking_space *)

\* the active mask pixels inside region r, counted from the mask itself
ActivePixels(r) ==
    Cardinality({p \in processed_img :
                    /\ r[2] <= p[1] /\ p[1] < r[2] + r[4]
                    /\ r[1] <= p[2] /\ p[2] < r[1] + r[3]})

\* r lies fully inside the frame's pixel bounds (its far edges may coincide
\* with the frame's)
FullyInside(r) ==
    /\ r[1] >= 0 /\ r[2] >= 0
    /\ r[1] + r[3] <= img_shape[2]
    /\ r[2] + r[4] <= img_shape[1]

RegionIdx == DOMAIN parking_positions

\* C1: every region the classifier scores is drawn free (green) iff its
\* active-pixel count is strictly below threshold and occupied (red) iff the
\* count is >= threshold, and the returned free count is the number of scored
\* regions whose count is below threshold.
C1_ScoredRegionsClassified ==
    park_done =>
        /\ Len(annotations) = Len(parking_positions)
        /\ \A i \in RegionIdx :
              annotations[i].scored =>
                 /\ annotations[i].count = ActivePixels(parking_positions[i])
                 /\ annotations[i].color = "green"
                       <=> ActivePixels(parking_positions[i]) < threshold
                 /\ annotations[i].color = "red"
                       <=> ActivePixels(parking_positions[i]) >= threshold
        /\ space_counter =
              Cardinality({i \in RegionIdx :
                              /\ annotations[i].scored
                              /\ ActivePixels(parking_positions[i]) < threshold})

\* C1 witness: a call that scored one region with count = threshold > 0
\* (occupied) and another with a count below threshold (free).
C1_Witness ==
    /\ park_done
    /\ threshold > 0
    /\ \E i, j \in RegionIdx :
          /\ annotations[i].scored /\ annotations[i].count = threshold
          /\ annotations[i].color = "red"
          /\ annotations[j].scored /\ annotations[j].color = "green"
    /\ space_counter = 1

\* C2 (as claimed): every region fully inside the frame bounds, its right or
\* bottom edge on the frame edge included, is scored: occupied iff count >=
\* threshold, and counted free when its count is below threshold.
C2_FullyInsideScored ==
    park_done =>
        /\ \A i \in RegionIdx :
              FullyInside(parking_positions[i]) =>
                 /\ annotations[i].scored
                 /\ annotations[i].color = "red"
                       <=> ActivePixels(parking_positions[i]) >= threshold
        /\ space_counter >=
              Cardinality({i \in RegionIdx :
                              /\ FullyInside(parking_positions[i])
                              /\ ActivePixels(parking_positions[i]) < threshold})

\* C3: a region that is not fully inside the frame bounds is skipped: nothing
\* is drawn or counted for it, and the free count and the classification of
\* every other region are those of the call on the list without that region.
C3_OutsideRegionSkipped ==
    park_done =>
        \A i \in RegionIdx :
            ~FullyInside(parking_positions[i]) =>
                LET without == check_parking_space(processed_img, img_shape,
                                   RemoveAt(parking_positions, i), threshold)
                IN  /\ annotations[i] = Skipped
                    /\ space_counter = without.space_counter
                    /\ RemoveAt(annotations, i) = without.annotations

\* C3 witness: a call on a list holding a region outside the frame and a
\* region that was scored free.
C3_Witness ==
    /\ park_done
    /\ \E i, j \in RegionIdx :
          /\ ~FullyInside(parking_positions[i])
          /\ annotations[j].scored /\ annotations[j].color = "green"
          /\ space_counter = 1

----------------------------------------------------------------------------
(* Properties of the trackers.  Each is stated on the record of the last call
   and on the pool and counter it returned (matches, vehicle_counter). *)

IsTraditional == call.kind = "traditional"
IsMl == call.kind = "ml"
MlCompleted == call.kind = "ml" /\ call.raised = "none"

\* y lies strictly between line_y - offset and line_y + offset of the last call
InCallBand(y) == call.line_y - call.offset < y /\ y < call.line_y + call.offset

\* the centroids of the size-valid contours of the last (traditional) call
NewCentroids ==
    LET valid == SelectSeq(call.objects,
                    LAMBDA r : r[3] >= MIN_CONTOUR_SIZE /\ r[4] >= MIN_CONTOUR_SIZE)
    IN  [k \in 1..Len(valid) |->
            <<valid[k][1] + (valid[k][3] \div 2), valid[k][2] + (valid[k][4] \div 2)>>]

\* carried centroids followed by this frame's new ones
CombinedPool == call.in_matches \o NewCentroids

\* C4: one detect_vehicles_traditional call returns the input counter plus the
\* number of centroids of the combined pool (carried plus new, with
\* multiplicity) inside the crossing band, and no centroid of the returned
\* pool lies inside that band.
C4_TraditionalCountsBand ==
    IsTraditional =>
        /\ vehicle_counter = call.in_counter +
              Cardinality({i \in DOMAIN CombinedPool : InCallBand(CombinedPool[i][2])})
        /\ \A i \in DOMAIN matches : ~InCallBand(matches[i][2])

\* C4 witness: a call that counted a carried centroid and a new one and kept
\* a third.
C4_Witness ==
    /\ IsTraditional
    /\ \E i \in DOMAIN call.in_matches : InCallBand(call.in_matches[i][2])
    /\ \E k \in DOMAIN NewCentroids : InCallBand(NewCentroids[k][2])
    /\ vehicle_counter = call.in_counter + 2
    /\ matches # <<>>

\* C5: the band is the open interval (line_y - offset, line_y + offset): a
\* centroid with y = line_y is counted whenever offset > 0; a centroid with
\* y = line_y - offset or y = line_y + offset is not counted and stays in the
\* pool; in general a centroid is counted iff its y is strictly inside.
C5_OpenInterval ==
    IsTraditional =>
        /\ \A i \in DOMAIN CombinedPool :
              LET m == CombinedPool[i]
              IN  /\ (m[2] = call.line_y /\ call.offset > 0) =>
                        (m \in Range(call.counted) /\ m \notin Range(matches))
                  /\ (m[2] = call.line_y - call.offset \/ m[2] = call.line_y + call.offset) =>
                        (m \notin Range(call.counted) /\ m \in Range(matches))
                  /\ m \in Range(call.counted) <=> InCallBand(m[2])
        /\ vehicle_counter - call.in_counter = Len(call.counted)

\* C5 witness: with offset > 0, a centroid on the line was counted while one
\* on the lower and one on the upper edge of the band stayed in the pool.
C5_Witness ==
    /\ IsTraditional
    /\ call.offset > 0
    /\ \E a, b, c \in Range(CombinedPool) :
          /\ a[2] = call.line_y /\ a \in Range(call.counted)
          /\ b[2] = call.line_y - call.offset /\ b \in Range(matches)
          /\ c[2] = call.line_y + call.offset /\ c \in Range(matches)
    /\ vehicle_counter = call.in_counter + 1

C7_NearbyNotRecounted ==
    MlCompleted =>
        \A c \in Range(call.current) :
            ( /\ InCallBand(c[2])
              /\ \E m \in Range(call.in_matches) \cap call.prev_counted :
                    (m[1] - c[1]) * (m[1] - c[1]) + (m[2] - c[2]) * (m[2] - c[2])
                        < TOLERANCE * TOLERANCE )
            => c \notin Range(call.counted)

\* C8 (as claimed): a detect_vehicles_ml call in which an exception is raised
\* returns the input counter and a pool equal to the carried pool as it was on
\* entry.
C8_FailedCallReturnsEntryState ==
    (IsMl /\ call.raised # "none") =>
        /\ vehicle_counter = call.in_counter
        /\ matches = call.in_matches

\* the number of centroids the last call judged to cross the line: for the
\* motion tracker the members of the combined pool inside the band, for the
\* detector tracker the distinct in-band current centroids not in the carried
\* pool (none when the call raised and returned its input)
Judged(c) ==
    IF c.kind = "traditional"
    THEN LET pool == c.in_matches \o c.current
         IN  Cardinality({i \in DOMAIN pool :
                c.line_y - c.offset < pool[i][2] /\ pool[i][2] < c.line_y + c.offset})
    ELSE IF c.raised # "none" THEN 0
    ELSE Cardinality({x \in Range(c.current) :
                /\ c.line_y - c.offset < x[2] /\ x[2] < c.line_y + c.offset
                /\ x \notin Range(c.in_matches)})

\* the number of centroids the last call examined
Examined(c) ==
    IF c.kind = "traditional" THEN Len(c.in_matches) + Len(c.current)
    ELSE Len(c.current)

C10_PruneByDistance ==
    MlCompleted =>
        /\ \A i \in DOMAIN call.pool :
              LET m == call.pool[i]
                  d(c) == (m[1] - c[1]) * (m[1] - c[1]) + (m[2] - c[2]) * (m[2] - c[2])
              IN  /\ (\A c \in Range(call.current) : d(c) > TOLERANCE * TOLERANCE)
                        => m \notin Range(matches)
                  /\ (\E c \in Range(call.current) : d(c) < TOLERANCE * TOLERANCE)
                        => m \in Range(matches)
                  /\ m \in Range(matches)
                        => \E c \in Range(call.current) : d(c) <= TOLERANCE * TOLERANCE
        /\ Range(matches) \subseteq Range(call.pool)
        /\ Range(call.in_matches) \subseteq Range(call.pool)

\* C10 witness: of two carried centroids, one had no current centroid within
\* 50 px and was pruned, the other was kept by a different current centroid
\* less than 50 px away.
C10_Witness ==
    /\ MlCompleted
    /\ \E m1, m2 \in Range(call.in_matches) :
          /\ m1 \notin Range(matches)
          /\ m2 \in Range(matches)
          /\ m2 \notin Range(call.current)
          /\ call.current # <<>>

\* C11: a current-frame centroid is counted by detect_vehicles_ml only if it
\* is inside the band and not, by exact equality, in the carried pool; every
\* centroid counted in a call is a member of the pool that call returns; and
\* equal centroids in one frame are counted once: a completed call raises the
\* counter by the number of distinct in-band current centroids absent from the
\* carried pool.
C11_CountedOnceAndRetained ==
    IsMl =>
        /\ \A i \in DOMAIN call.counted :
              LET c == call.counted[i]
              IN  /\ c \in Range(call.current)
                  /\ InCallBand(c[2])
                  /\ c \notin Range(call.in_matches)
                  /\ c \in Range(matches)
                  /\ \A j \in DOMAIN call.counted : call.counted[j] = c => j = i
        /\ MlCompleted =>
              vehicle_counter - call.in_counter =
                  Cardinality({c \in Range(call.current) :
                                  InCallBand(c[2]) /\ c \notin Range(call.in_matches)})

\* C11 witness: a frame with two detections of the same in-band centroid, not
\* in the carried pool: the counter rose by one and the centroid is in the
\* returned pool.
C11_Witness ==
    /\ MlCompleted
    /\ Len(call.current) = 2
    /\ call.current[1] = call.current[2]
    /\ InCallBand(call.current[1][2])
    /\ call.current[1] \notin Range(call.in_matches)
    /\ vehicle_counter = call.in_counter + 1
    /\ call.current[1] \in Range(matches)

\* the line a frame of the last call's height gives for its line_height
\* argument, as the claim states it
ExpectedLine ==
    IF call.line_height >= call.frame_height
    THEN call.frame_height - 50
    ELSE call.line_height

\* C12: in both trackers a line_height >= the frame height gives the effective
\* line frame_height - 50 (1000 on 480 rows gives 430), a smaller line_height
\* is used as it is, and the crossing test is made against that value: the
\* centroids counted are those strictly within offset of it.
C12_LineClamped ==
    call.kind # "none" =>
        /\ call.line_y = ExpectedLine
        /\ (call.line_height = 1000 /\ call.frame_height = 480) => call.line_y = 430
        /\ \A m \in Range(call.pool) \cup Range(call.current) :
              m \in Range(call.counted)
                 <=> (ExpectedLine - call.offset < m[2] /\ m[2] < ExpectedLine + call.offset)
        /\ vehicle_counter = call.in_counter + Len(call.counted)

\* C12 witness (motion tracker): line_height equal to the frame height, 480,
\* and the centroid on row 430 counted.
C12_Witness ==
    /\ IsTraditional
    /\ call.line_height = call.frame_height
    /\ call.frame_height = 480
    /\ call.line_y = 430
    /\ vehicle_counter = 1
    /\ <<120, 430>> \in Range(call.counted)

\* C13 (as claimed): the effective line of either tracker lies within the
\* frame: 0 <= line_y < frame height.
C13_LineWithinFrame ==
    call.kind # "none" =>
        (0 <= call.line_y /\ call.line_y < call.frame_height)

\* C20: the pool detect_vehicles_traditional returns is the carried pool
\* followed by this frame's new centroids, in that order, without the in-band
\* ones; the counter increase plus the returned length is the carried length
\* plus the number of size-valid contours; and the caller's list is as it was.
C20_PoolConserved ==
    IsTraditional =>
        /\ matches = SelectSeq(CombinedPool, LAMBDA m : ~InCallBand(m[2]))
        /\ (vehicle_counter - call.in_counter) + Len(matches)
              = Len(call.in_matches) + Len(NewCentroids)
        /\ call.carried_after = call.in_matches

\* C20 witness: a call with a carried centroid that stayed, a new centroid
\* that stayed after it, and a centroid that was counted and removed.
C20_Witness ==
    /\ IsTraditional
    /\ Len(matches) = 2
    /\ matches[1] \in Range(call.in_matches)
    /\ matches[2] \in Range(NewCentroids)
    /\ matches[1] # matches[2]
    /\ vehicle_counter = call.in_counter + 1
    /\ Len(call.in_matches) + Len(NewCentroids) = 3

----------------------------------------------------------------------------
(* Properties of the detection tab and the controller *)

\* C14 (as claimed): every frame read while detection is running is handed to
\* exactly one pipeline, the one the mode selector names, and that pipeline
\* runs on the frame.
C14_FrameDispatched ==
    frame.read => frame.ran = SelectedPipeline(frame.mode, frame.use_ml)

\* what the motion tracker returns for the frame of the last cycle, given the
\* pool and counter the controller held when the frame was read
TrackerResult ==
    detect_vehicles_traditional(frame.content.contours, <<480, 640>>,
        MIN_CONTOUR_SIZE, MIN_CONTOUR_SIZE, self_line_height, self_offset,
        frame.carried, frame.in_counter)

\* C15 (as claimed, for a counting frame with ML off): once a frame has been
\* processed and before the next is dispatched, the controller's
\* vehicle_counter and matches are the values the pipeline returns for that
\* frame.
C15_StateWrittenBack ==
    (frame.read /\ frame.mode = "counting" /\ ~frame.use_ml /\ ui_pc = "idle") =>
        /\ vehicle_counter = TrackerResult.ret_counter
        /\ matches = TrackerResult.ret_matches

\* C16 (as claimed): a recorded statistics row never reflects a partially
\* applied update: free + occupied = total in every row.
C16_RowsConsistent ==
    \A i \in DOMAIN stats_data :
        stats_data[i].free_spaces + stats_data[i].occupied_spaces
            = stats_data[i].total_spaces

C19_SingleStream ==
    /\ open_captures <= 1
    /\ ~tab_running => (open_captures = 0 /\ video_capture # "open")

\* C19 witness: detection was started twice, the mode and the source having
\* been changed; both captures were opened and the second has been released
\* after a frame was read.
C19_Witness ==
    /\ captures_made = 2
    /\ ~tab_running
    /\ video_capture = "released"
    /\ open_captures = 0
    /\ frame.read
    /\ detection_mode = "counting"
    /\ video_source_var # "carPark.mp4"

----------------------------------------------------------------------------
(* Properties of sequences of tracker calls *)

\* C21: over motion-tracker calls chained from an empty pool with the line
\* fixed, no carried centroid is counted by a later call or removed from the
\* pool (the carried pool is a prefix of the returned one and the counter
\* rises by the number of this frame's in-band centroids only), the counter
\* is the number of size-valid contours in the band in the frame that
\* produced them, and the pool length is the number of the others.
C21_CarriedNeverCounted ==
    IsTraditional =>
        /\ SubSeq(matches, 1, Len(call.in_matches)) = call.in_matches
        /\ Len(matches) >= Len(call.in_matches)
        /\ \A i \in DOMAIN call.in_matches : ~InCallBand(call.in_matches[i][2])
        /\ vehicle_counter - call.in_counter =
              Cardinality({k \in DOMAIN NewCentroids : InCallBand(NewCentroids[k][2])})
        /\ vehicle_counter = call.made_in
        /\ Len(matches) = call.made_out

\* C21 witness: a third or later call, handed a pool of two centroids and a
\* counter already raised, counts a new centroid and returns the two.
C21_Witness ==
    /\ IsTraditional
    /\ call.calls >= 3
    /\ Len(call.in_matches) = 2
    /\ call.in_counter >= 1
    /\ vehicle_counter = call.in_counter + 1
    /\ matches = call.in_matches

\* C22: over non-failing detector-tracker calls chained from an empty pool
\* with the line fixed, every centroid of the pool lies inside the band, was
\* counted by the call that put it there (it was either handed to the last
\* call or counted by it, and some call counted it), and occurs once.
C22_DetectorPoolInvariant ==
    IsMl =>
        \A i \in DOMAIN matches :
            /\ InCallBand(matches[i][2])
            /\ matches[i] \in call.ever_counted
            /\ matches[i] \in Range(call.in_matches) \cup Range(call.counted)
            /\ \A j \in DOMAIN matches : matches[j] = matches[i] => j = i

\* C22 witness: after at least two calls the pool holds two centroids, one
\* handed to the last call and one counted by it.
C22_Witness ==
    /\ IsMl
    /\ call.calls >= 2
    /\ Len(matches) = 2
    /\ matches[1] \in Range(call.in_matches)
    /\ matches[2] \in Range(call.counted)
    /\ matches[1] # matches[2]

\* C23: a detector-tracker call whose frame has no detection returns the
\* counter unchanged and an empty pool whatever pool it was handed; so in the
\* call after it every in-band centroid is counted, one counted before
\* included.
C23_EmptyFrameEmptiesPool ==
    IsMl =>
        /\ call.current = <<>> =>
              (vehicle_counter = call.in_counter /\ matches = <<>>)
        /\ call.prev_empty =>
              /\ call.in_matches = <<>>
              /\ \A c \in Range(call.current) :
                    InCallBand(c[2]) => c \in Range(call.counted)
              /\ vehicle_counter - call.in_counter =
                    Cardinality({c \in Range(call.current) : InCallBand(c[2])})

\* C23 witness: a centroid was counted and pooled, the next frame had no
\* detection, and the frame after it shows the centroid again: counted again.
C23_Witness ==
    /\ IsMl
    /\ call.prev_empty
    /\ \E c \in Range(call.counted) :
          c \in call.prev_dropped /\ c \in call.counted_before
    /\ vehicle_counter >= 2

\* C24: the motion centroid of (x, y, w, h) is (x + floor(w / 2),
\* y + floor(h / 2)), the detector centroid of (x1, y1, x2, y2) is
\* (floor((x1 + x2) / 2), floor((y1 + y2) / 2)), and for every integer box
\* the detector centroid equals get_centroid(x1, y1, x2 - x1, y2 - y1).
\* floor(a / 2) is the integer q with 2q <= a < 2q + 2.
C24_CentroidsAgree ==
    call.kind = "centroid" =>
        LET b == call.box
            m == call.motion
            d == call.detector
            HalfFloor(q, a) == 2 * q <= a /\ a < 2 * q + 2
        IN  /\ HalfFloor(m[1] - b[1], b[3] - b[1])
            /\ HalfFloor(m[2] - b[2], b[4] - b[2])
            /\ HalfFloor(d[1], b[1] + b[3])
            /\ HalfFloor(d[2], b[2] + b[4])
            /\ m = d

\* C24 witness: a box of odd negative width and odd height with a negative
\* corner, where rounding toward zero or upward would differ from floor.
C24_Witness ==
    /\ call.kind = "centroid"
    /\ call.box = <<2, -3, -1, 2>>
    /\ call.motion = <<0, -1>>
    /\ call.detector = <<0, -1>>

\* C25: the free count check_parking_space returns is a function of the
\* mask, the region list and the threshold of the call alone (the number of
\* regions lying strictly inside the mask whose active-pixel count is below
\* the threshold, whatever an earlier call returned), lies between 0 and the
\* number of regions, and on the same mask and region list is not smaller
\* for a threshold that is not smaller.
C25_StatelessAndMonotone ==
    park_done =>
        /\ 0 <= space_counter
        /\ space_counter <= Len(parking_positions)
        /\ space_counter =
              Cardinality({i \in RegionIdx :
                  LET r == parking_positions[i]
                  IN  /\ r[1] >= 0 /\ r[2] >= 0
                      /\ r[1] + r[3] < img_shape[2]
                      /\ r[2] + r[4] < img_shape[1]
                      /\ ActivePixels(r) < threshold})
        /\ park_prev.recorded =>
              /\ threshold >= park_prev.threshold =>
                    space_counter >= park_prev.space_counter
              /\ threshold = park_prev.threshold =>
                    space_counter = park_prev.space_counter

\* C25 witness: a first call that found one region free, then a second call
\* on the same mask and regions with a higher threshold that finds two.
C25_Witness ==
    /\ park_done
    /\ park_prev.recorded
    /\ park_prev.space_counter = 1
    /\ threshold > park_prev.threshold
    /\ space_counter = 2
    /\ Len(parking_positions) = 2

----------------------------------------------------------------------------
(* Properties of the frame loop *)

\* C26: a cycle of process_video_frame whose read fails or whose processing
\* raises ends with DetectionTab.running and controller.running both false
\* and the capture released, and schedules no callback; and whenever
\* detection is running it is eventually stopped.
C26_LoopStopsOnFailure ==
    /\ [][(ui_pc = "read" /\ ui_pc' = "idle" /\ frame'.ran = "none") =>
             /\ ~tab_running' /\ ~ctl_running'
             /\ video_capture' = "released"
             /\ open_captures' = 0
             /\ pending' = pending]_vars
    /\ (tab_running ~> ~tab_running)

\* C26 witness: detection was started twice; the last cycle's read failed and
\* detection is stopped, the capture released, no callback pending.
C26_Witness ==
    /\ captures_made = 2
    /\ frame # NoFrame
    /\ ~frame.read
    /\ ~tab_running /\ ~ctl_running
    /\ video_capture = "released"
    /\ pending = 0

\* C27 (as claimed): at most one process_video_frame callback is pending at
\* any time.
C27_SingleFrameLoop == pending <= 1

----------------------------------------------------------------------------
(* Properties of the setup operations *)

\* C28 (as claimed): after clear_all_spaces has returned True the region
\* list is empty.
C28_ClearedAfterClear ==
    (setup_op.op = "clear_all_spaces" /\ setup_op.ret) => posList = <<>>

\* C29 (as claimed): between setup operations total_spaces is the length of
\* the region list.
C29_TotalMatchesRegions ==
    ui_pc = "idle" => total_spaces = Len(posList)

\* C30: the region list is extended only by an on_mouse_up that finds
\* self.drawing true, which on_mouse_down alone sets and every on_mouse_up
\* clears; that on_mouse_up appends one region if the drawn width and height
\* both exceed 20 and nothing otherwise; the region appended has positive
\* width and height, the distances between the press and release points,
\* and its corner is their component-wise minimum.  Every other operation
\* leaves in the list only regions it held or regions read from a position
\* file.
C30_DrawingProtocol ==
    [][LET op == setup_op'
           Abs(a) == IF a < 0 THEN 0 - a ELSE a
           Least(a, b) == IF a <= b THEN a ELSE b
       IN  IF op.n = setup_op.n + 1 /\ op.op = "on_mouse_up"
           THEN LET width == Abs(op.pt[1] - start_pt[1])
                    height == Abs(op.pt[2] - start_pt[2])
                IN  /\ drawing' # "True"
                    /\ IF drawing = "True" /\ width > 20 /\ height > 20
                       THEN /\ width > 0 /\ height > 0
                            /\ posList' = Append(posList,
                                   <<Least(start_pt[1], op.pt[1]),
                                     Least(start_pt[2], op.pt[2]), width, height>>)
                       ELSE posList' = posList
           ELSE /\ Range(posList') \subseteq
                      Range(posList) \cup Range(pos_file[current_reference_image'])
                /\ (drawing' = "True" /\ drawing # "True") => op.op = "on_mouse_down"
                /\ (op.n = setup_op.n + 1 /\ op.op \in {"on_mouse_down", "save_parking_spaces"})
                      => posList' = posList]_vars

\* C30 witness: pressed at (21, 50) and released at (50, 21): the region
\* [21, 21, 29, 29] was appended to the list.
C30_Witness ==
    /\ setup_op.op = "on_mouse_up"
    /\ setup_op.was_drawing = "True"
    /\ setup_op.appended
    /\ setup_op.press = <<21, 50>>
    /\ setup_op.pt = <<50, 21>>
    /\ drawing = "False"
    /\ posList # <<>>
    /\ posList[Len(posList)] = <<21, 21, 29, 29>>

====
